---- MODULE Spec2Model ----
(***************************************************************************)
(* Model of the asynchronous coordination core of the social media         *)
(* optimisation backend: the Redis-backed TaskManager                      *)
(* (backend/utils/task_manager.py), its callers in backend/main.py and the *)
(* WebSocketManager (backend/utils/websocket_manager.py).                  *)
(*                                                                         *)
(* Python's None is the empty tuple, a present value x is <<x>>.           *)
(* Timestamps are readings of the logical clock `now`.                     *)
(***************************************************************************)
EXTENDS Integers, Sequences, FiniteSets, TLC

\* ------------------------------------------------------------------ bounds
MaxTasks == 1          \* tasks created in the lifecycle specification
MaxQueueTasks == 2     \* tasks created in the queue specification
NumCallers == 2        \* coroutines calling the TaskManager concurrently
MaxChannels == 2       \* WebSocket channels opened in one behaviour
MaxTime == 2           \* readings of the clock after which it stops
MaxMessages == 2       \* messages on a channel after which the background calls stop
MaxCalls == 3          \* calls the concurrent callers begin in one behaviour
MaxInbound == 3        \* messages on a channel after which the clients stop sending

\* --------------------------------------------------------------- constants
None == <<>>
Some(x) == <<x>>

PENDING == "pending"
RUNNING == "running"
COMPLETED == "completed"
FAILED == "failed"
CANCELLED == "cancelled"
TaskStatus == {PENDING, RUNNING, COMPLETED, FAILED, CANCELLED}
TerminalStatus == {COMPLETED, FAILED, CANCELLED}

\* TaskPriority, by the lower-cased member name that keys the tier queue
TaskPriority == {"low", "medium", "high", "critical"}
DefaultPriority == "medium"
DefaultMaxRetries == 3

\* task IDs: the uuid4 values create_task hands out, in the order it does, and 0,
\* an ID that no task has
TaskIds == 0..(IF MaxTasks > MaxQueueTasks THEN MaxTasks ELSE MaxQueueTasks)
Users == {"u1", "u2"}
Results == {"r1", "r2"}
\* the (user_id, priority, max_retries) of the create_task calls
CreateInputs == {<<"u1", DefaultPriority, 1>>, <<"u2", "high", 0>>}
ProgressInputs == {None, Some(50)}
Boom == "boom"
CancelledByUser == "Cancelled by user"

NoTask == [status |-> "absent"]

\* what a call hands back to its caller: the call's name and the value
Returned(op, value) == [op |-> op, value |-> value]
Void == Returned("void", None)

VARIABLES
    tasks,          \* redis key task:<id> -> JSON document, NoTask when the key is absent
    queue,          \* redis list task_queue:<tier>, index 1 is the head (left end)
    active_tasks,   \* redis set active_tasks
    user_tasks,     \* redis set user_tasks:<user>
    nextId,         \* the next fresh uuid4
    decode_responses, \* whether the redis client answers with str (True) or bytes
    now,            \* the wall clock
    exec,           \* per task, the position of its execute_* background task
    sent,           \* the task_update notifications attempted by main.py
    cancelling,     \* DELETE /tasks/<id> requests between their check and cancel_task
    ret,            \* what the last finished call returned
    enq,            \* per tier, every ID pushed so far, in push order
    deq,            \* per tier, every ID get_next_task returned so far, in call order
    scenario,       \* per task, how far its calls follow create, running, 50, complete
    calls,          \* per caller, the TaskManager call it is inside and where
    log,            \* the TaskManager calls begun by the concurrent callers, in order
    active_connections,  \* WebSocketManager.active_connections: user -> channel
    subscriptions,       \* WebSocketManager.subscriptions: user -> set of topics
    connection_metadata, \* WebSocketManager.connection_metadata: user -> counters
    lock,           \* WebSocketManager._lock: the endpoint holding it, or None
    endpoint,       \* per channel, the position of its websocket_endpoint coroutine
    channel,        \* per channel, whether it is open, closed by the server or gone
    delivered,      \* per channel, the messages sent over it, in order
    bg              \* the WebSocketManager call a background coroutine is inside, and where

storeVars == <<tasks, queue, active_tasks, user_tasks>>
clientVars == <<nextId, decode_responses, now>>
mainVars == <<exec, sent, cancelling>>
histVars == <<enq, deq>>
raceVars == <<calls, log>>
wsVars == <<active_connections, subscriptions, connection_metadata, lock, endpoint, channel, delivered, bg>>
quietVars == <<storeVars, clientVars, mainVars, histVars, scenario, raceVars>>
taskVars == <<storeVars, clientVars, mainVars, ret, histVars, scenario, raceVars>>
vars == <<taskVars, wsVars>>

\* --------------------------------------------------------- pure functions
IsTerminal(status) == status \in TerminalStatus

Exists(t) == tasks[t] # NoTask

\* a push at the tail of the list, the end RPOP takes from
LPush_AtTail(q, t) == Append(q, t)

\* redis LPUSH: the new element becomes the head of the list
LPush(q, t) == <<t>> \o q

\* redis RPOP: the element at the tail leaves the list
RPopValue(q) == q[Len(q)]

\* a pop that leaves the element in the list
RPopRest_Peek(q) == q

\* redis RPOP: the list without its tail
RPopRest(q) == SubSeq(q, 1, Len(q) - 1)

\* create_task storing the document as already started
NewTaskData_Started(user_id, priority, max_retries, clock) ==
    [ user_id      |-> user_id,
      status       |-> RUNNING,
      priority     |-> priority,
      max_retries  |-> max_retries,
      retry_count  |-> 0,
      created_at   |-> clock,
      updated_at   |-> clock,
      started_at   |-> Some(clock),
      completed_at |-> None,
      result       |-> None,
      error        |-> None,
      progress     |-> 0 ]

\* the task_data document create_task stores
NewTaskData(user_id, priority, max_retries, clock) ==
    [ user_id      |-> user_id,
      status       |-> PENDING,
      priority     |-> priority,
      max_retries  |-> max_retries,
      retry_count  |-> 0,
      created_at   |-> clock,
      updated_at   |-> clock,
      started_at   |-> None,
      completed_at |-> None,
      result       |-> None,
      error        |-> None,
      progress     |-> 0 ]

\* update_task_status dropping the progress it was given
UpdatedTaskData_KeepProgress(current_data, status, progress, error, result, clock) ==
    [ current_data EXCEPT
        !.status = status,
        !.updated_at = clock,
        !.error = IF error # None THEN error ELSE @,
        !.result = IF result # None THEN result ELSE @,
        !.started_at = IF status = RUNNING /\ @ = None THEN Some(clock) ELSE @,
        !.completed_at = IF IsTerminal(status) THEN Some(clock) ELSE @ ]

\* the document update_task_status writes back, from the document it read
UpdatedTaskData(current_data, status, progress, error, result, clock) ==
    [ current_data EXCEPT
        !.status = status,
        !.updated_at = clock,
        !.progress = IF progress # None THEN progress[1] ELSE @,
        !.error = IF error # None THEN error ELSE @,
        !.result = IF result # None THEN result ELSE @,
        !.started_at = IF status = RUNNING /\ @ = None THEN Some(clock) ELSE @,
        !.completed_at = IF IsTerminal(status) THEN Some(clock) ELSE @ ]

\* retry_task's document with the error of the failed attempt left in place
RetriedTaskData_KeepError(task_data, clock) ==
    [ task_data EXCEPT
        !.retry_count = @ + 1,
        !.status = PENDING,
        !.updated_at = clock,
        !.started_at = None,
        !.completed_at = None,
        !.progress = 0 ]

\* the document retry_task writes back
RetriedTaskData(task_data, clock) ==
    [ task_data EXCEPT
        !.retry_count = @ + 1,
        !.status = PENDING,
        !.updated_at = clock,
        !.started_at = None,
        !.completed_at = None,
        !.error = None,
        !.progress = 0 ]

\* the IDs a caller can name: those handed out so far, and the ID no task has
Issued == {t \in TaskIds : t < nextId}

\* a caller that is in no TaskManager call
Idle == [op |-> "idle"]
Callers == 1..NumCallers

\* the WebSocket channels the server is offered, and an endpoint not yet started
Channels == 1..MaxChannels
NoEndpoint == [pc |-> "new", user_id |-> "u1", ctx |-> "none"]

\* no execute_* background task was started for the task
NoExec == [pc |-> "none", user_id |-> "u1", result |-> "r1"]

\* ------------------------------------------------------------------- Init
Init ==
    /\ tasks = [t \in TaskIds |-> NoTask]
    /\ queue = [p \in TaskPriority |-> <<>>]
    /\ active_tasks = {}
    /\ user_tasks = [u \in Users |-> {}]
    /\ nextId = 1
    /\ now = 0
    /\ exec = [t \in TaskIds |-> NoExec]
    /\ sent = <<>>
    /\ cancelling = {}
    /\ scenario = [t \in TaskIds |-> "none"]
    /\ calls = [p \in Callers |-> Idle]
    /\ log = <<>>
    /\ ret = Void
    /\ decode_responses \in BOOLEAN
    /\ enq = [p \in TaskPriority |-> <<>>]
    /\ deq = [p \in TaskPriority |-> <<>>]
    /\ active_connections = [u \in Users |-> None]
    /\ subscriptions = [u \in Users |-> None]
    /\ connection_metadata = [u \in Users |-> None]
    /\ lock = None
    /\ endpoint = [c \in Channels |-> NoEndpoint]
    /\ channel = [c \in Channels |-> "open"]
    /\ delivered = [c \in Channels |-> <<>>]
    /\ bg = Idle

\* the calls on one task that the scenario of section 8 consists of, in order
Follow(at, call) ==
    CASE at = "none"     /\ call = "create"       -> "created"
      [] at = "created"  /\ call = "mark_running" -> "running"
      [] at = "running"  /\ call = "progress_50"  -> "reported"
      [] at = "reported" /\ call = "complete"     -> "completed"
      [] OTHER -> "off"

Followed(t, call) ==
    scenario' = [scenario EXCEPT ![t] = IF Exists(t) \/ call = "create" THEN Follow(@, call) ELSE @]

\* ---------------------------------------------- TaskManager, whole calls
\* the store effects of create_task: SET, SADD user_tasks, SADD active_tasks, LPUSH
CreateEffects(t, user_id, priority, max_retries) ==
    /\ tasks' = [tasks EXCEPT ![t] = NewTaskData(user_id, priority, max_retries, now)]
    /\ user_tasks' = [user_tasks EXCEPT ![user_id] = @ \cup {t}]
    /\ active_tasks' = active_tasks \cup {t}
    /\ queue' = [queue EXCEPT ![priority] = LPush(@, t)]
    /\ enq' = [enq EXCEPT ![priority] = Append(@, t)]
    /\ nextId' = nextId + 1
    /\ Followed(t, "create")
    /\ UNCHANGED <<decode_responses, now, deq>>

create_task(user_id, priority, max_retries) ==
    /\ CreateEffects(nextId, user_id, priority, max_retries)
    /\ ret' = Returned("create_task", nextId)
    /\ UNCHANGED <<mainVars, raceVars, wsVars>>

\* get_task_status reads the store and changes nothing: the document, or None
GetFrom(store, t) == IF store[t] # NoTask THEN Some(store[t]) ELSE None
get_task_status(t) == GetFrom(tasks, t)

\* the store effects of update_task_status(t, status, progress, error, result)
UpdateEffects(t, status, progress, error, result) ==
    /\ IF ~Exists(t)
       THEN UNCHANGED <<tasks, active_tasks>>
       ELSE /\ tasks' = [tasks EXCEPT ![t] =
                           UpdatedTaskData(tasks[t], status, progress, error, result, now)]
            /\ active_tasks' = IF IsTerminal(status) THEN active_tasks \ {t} ELSE active_tasks
    /\ UNCHANGED <<queue, user_tasks, clientVars, histVars>>

\* how a status update counts in the scenario
CallName(status, progress) ==
    CASE status = RUNNING /\ progress = None -> "mark_running"
      [] status = RUNNING /\ progress = Some(50) -> "progress_50"
      [] status = COMPLETED -> "complete"
      [] OTHER -> "other"

update_task_status(t, progress) ==
    /\ UpdateEffects(t, RUNNING, progress, None, None)
    /\ Followed(t, CallName(RUNNING, progress))
    /\ ret' = Void
    /\ UNCHANGED <<mainVars, raceVars, wsVars>>

complete_task(t, result) ==
    /\ UpdateEffects(t, COMPLETED, Some(100), None, Some(result))
    /\ Followed(t, CallName(COMPLETED, Some(100)))
    /\ ret' = Void
    /\ UNCHANGED <<mainVars, raceVars, wsVars>>

fail_task(t, error) ==
    /\ UpdateEffects(t, FAILED, None, Some(error), None)
    /\ Followed(t, "other")
    /\ ret' = Void
    /\ UNCHANGED <<mainVars, raceVars, wsVars>>

cancel_task(t, reason) ==
    /\ UpdateEffects(t, CANCELLED, None, Some(reason), None)
    /\ Followed(t, "other")
    /\ ret' = Void
    /\ UNCHANGED <<mainVars, raceVars, wsVars>>

\* retry_task's test with the comparison one off
RetryExhausted_OffByOne(task_data) == task_data.retry_count > task_data.max_retries

\* retry_task's test for a task that used up its retries
RetryExhausted(task_data) == task_data.retry_count >= task_data.max_retries

retry_task(t) ==
    /\ IF ~Exists(t) \/ RetryExhausted(tasks[t])
       THEN /\ ret' = Returned("retry_task", FALSE)
            /\ UNCHANGED <<tasks, active_tasks, queue, enq>>
       ELSE /\ tasks' = [tasks EXCEPT ![t] = RetriedTaskData(tasks[t], now)]
            /\ active_tasks' = active_tasks \cup {t}
            /\ queue' = [queue EXCEPT ![tasks[t].priority] = LPush(@, t)]
            /\ enq' = [enq EXCEPT ![tasks[t].priority] = Append(@, t)]
            /\ ret' = Returned("retry_task", TRUE)
    /\ Followed(t, "other")
    /\ UNCHANGED <<user_tasks, clientVars, mainVars, deq, raceVars, wsVars>>

\* task_id.decode() on what RPOP answered: bytes decode to the ID; a str has
\* no decode(), the AttributeError is caught and the call returns None
Decoded(task_id) == IF decode_responses THEN None ELSE Some(task_id)

get_next_task(priority) ==
    /\ IF queue[priority] = <<>>
       THEN /\ ret' = Returned("get_next_task", None)
            /\ UNCHANGED <<queue, deq>>
       ELSE /\ queue' = [queue EXCEPT ![priority] = RPopRest(@)]
            /\ ret' = Returned("get_next_task", Decoded(RPopValue(queue[priority])))
            /\ deq' = [deq EXCEPT ![priority] = @ \o Decoded(RPopValue(queue[priority]))]
    /\ UNCHANGED <<tasks, active_tasks, user_tasks, clientVars, mainVars, enq, scenario, raceVars, wsVars>>

\* the TaskManager API called by one caller at a time
Next ==
    \/ nextId <= MaxTasks /\ \E c \in CreateInputs : create_task(c[1], c[2], c[3])
    \/ \E t \in Issued, p \in ProgressInputs : update_task_status(t, p)
    \/ \E t \in Issued, r \in Results : complete_task(t, r)
    \/ \E t \in Issued : fail_task(t, Boom)
    \/ \E t \in Issued : cancel_task(t, CancelledByUser)
    \/ \E t \in Issued : retry_task(t)
    \/ \E p \in TaskPriority : get_next_task(p)

Spec == Init /\ [][Next]_vars

\* the tier queues under several tasks: producers create and retry, consumers pop
NextQueue ==
    \/ nextId <= MaxQueueTasks /\ \E c \in CreateInputs : create_task(c[1], c[2], c[3])
    \/ \E t \in Issued : fail_task(t, Boom)
    \/ \E t \in Issued : retry_task(t)
    \/ \E p \in TaskPriority : get_next_task(p)

SpecQueue == Init /\ [][NextQueue]_vars

\* ------------------------------- TaskManager, create_task on a failing store
\* create_task whose store step number failing raises (the four awaits on the
\* redis client inside the try block are, in order: 1 SET, 2 SADD user_tasks,
\* 3 SADD active_tasks, 4 LPUSH): the steps before it have been applied, the
\* except clause logs and raises again, nothing is undone
create_task_failing(user_id, priority, max_retries, failing) ==
    /\ tasks' = IF failing > 1
                THEN [tasks EXCEPT ![nextId] = NewTaskData(user_id, priority, max_retries, now)]
                ELSE tasks
    /\ user_tasks' = IF failing > 2
                     THEN [user_tasks EXCEPT ![user_id] = @ \cup {nextId}]
                     ELSE user_tasks
    /\ active_tasks' = IF failing > 3 THEN active_tasks \cup {nextId} ELSE active_tasks
    /\ nextId' = nextId + 1
    /\ ret' = Returned("create_task raises", failing)
    /\ UNCHANGED <<queue, enq, deq, scenario, decode_responses, now>>
    /\ UNCHANGED <<mainVars, raceVars, wsVars>>

NextCreate ==
    \/ nextId <= MaxQueueTasks /\ \E c \in CreateInputs : create_task(c[1], c[2], c[3])
    \/ nextId <= MaxQueueTasks /\ \E c \in CreateInputs : \E failing \in 1..4 :
          create_task_failing(c[1], c[2], c[3], failing)
    \/ \E p \in TaskPriority : get_next_task(p)

SpecCreate == Init /\ [][NextCreate]_vars

\* ----------------------------- TaskManager, concurrent calls step by step
\* Each await on the redis client is a point where another coroutine may run.
\* the (status, progress, error, result) of the update_task_status calls made:
\* mark running, complete_task, fail_task, cancel_task
UpdateCalls ==
    { <<RUNNING, None, None, None>>,
      <<COMPLETED, Some(100), None, Some("r1")>>,
      <<FAILED, None, Some(Boom), None>>,
      <<CANCELLED, None, Some(CancelledByUser), None>> }

\* update_task_status: await get_task_status; return when the task is not found,
\* else build the document to write from the one read
update_get(p, t, c) ==
    /\ calls[p] = Idle
    /\ Len(log) < MaxCalls
    /\ log' = Append(log, <<c[1], t>>)
    /\ IF ~Exists(t)
       THEN UNCHANGED calls
       ELSE calls' = [calls EXCEPT ![p] =
                [ op |-> "update", t |-> t,
                  pc |-> IF IsTerminal(c[1]) THEN "srem" ELSE "set",
                  data |-> UpdatedTaskData(tasks[t], c[1], c[2], c[3], c[4], now) ]]
    /\ ret' = IF Exists(t) THEN ret ELSE Void
    /\ UNCHANGED <<storeVars, clientVars, wsVars, mainVars, histVars, scenario>>

\* update_task_status: await redis srem(active_tasks, task_id)
update_srem(p) ==
    /\ calls[p].op = "update" /\ calls[p].pc = "srem"
    /\ active_tasks' = active_tasks \ {calls[p].t}
    /\ calls' = [calls EXCEPT ![p].pc = "set"]
    /\ UNCHANGED <<tasks, queue, user_tasks, clientVars, wsVars, mainVars, ret, histVars, scenario, log>>

\* update_task_status: await redis set(task:<id>, document), then return
update_set(p) ==
    /\ calls[p].op = "update" /\ calls[p].pc = "set"
    /\ tasks' = [tasks EXCEPT ![calls[p].t] = calls[p].data]
    /\ calls' = [calls EXCEPT ![p] = Idle]
    /\ ret' = Void
    /\ scenario' = [scenario EXCEPT ![calls[p].t] = "off"]
    /\ UNCHANGED <<queue, active_tasks, user_tasks, clientVars, wsVars, mainVars, histVars, log>>

\* retry_task: await get_task_status; return False when the task is not found or
\* has used up its retries, else build the document to write
retry_get(p, t) ==
    /\ calls[p] = Idle
    /\ Len(log) < MaxCalls
    /\ log' = Append(log, <<"retry", t>>)
    /\ IF ~Exists(t) \/ RetryExhausted(tasks[t])
       THEN /\ ret' = Returned("retry_task", FALSE)
            /\ UNCHANGED calls
       ELSE /\ calls' = [calls EXCEPT ![p] =
                   [ op |-> "retry", t |-> t, pc |-> "set",
                     data |-> RetriedTaskData(tasks[t], now) ]]
            /\ UNCHANGED ret
    /\ UNCHANGED <<storeVars, clientVars, wsVars, mainVars, histVars, scenario>>

\* retry_task: await redis set(task:<id>, document)
retry_set(p) ==
    /\ calls[p].op = "retry" /\ calls[p].pc = "set"
    /\ tasks' = [tasks EXCEPT ![calls[p].t] = calls[p].data]
    /\ calls' = [calls EXCEPT ![p].pc = "sadd"]
    /\ scenario' = [scenario EXCEPT ![calls[p].t] = "off"]
    /\ UNCHANGED <<queue, active_tasks, user_tasks, clientVars, wsVars, mainVars, ret, histVars, log>>

\* retry_task: await redis sadd(active_tasks, task_id)
retry_sadd(p) ==
    /\ calls[p].op = "retry" /\ calls[p].pc = "sadd"
    /\ active_tasks' = active_tasks \cup {calls[p].t}
    /\ calls' = [calls EXCEPT ![p].pc = "lpush"]
    /\ UNCHANGED <<tasks, queue, user_tasks, clientVars, wsVars, mainVars, ret, histVars, scenario, log>>

\* retry_task: await redis lpush(task_queue:<tier>, task_id), then return True
retry_lpush(p) ==
    /\ calls[p].op = "retry" /\ calls[p].pc = "lpush"
    /\ queue' = [queue EXCEPT ![calls[p].data.priority] = LPush(@, calls[p].t)]
    /\ enq' = [enq EXCEPT ![calls[p].data.priority] = Append(@, calls[p].t)]
    /\ calls' = [calls EXCEPT ![p] = Idle]
    /\ ret' = Returned("retry_task", TRUE)
    /\ UNCHANGED <<tasks, active_tasks, user_tasks, clientVars, wsVars, mainVars, deq, scenario, log>>

\* concurrent callers of the TaskManager racing on one task
NextRace ==
    \/ nextId = 1 /\ \E c \in CreateInputs : create_task(c[1], c[2], c[3])
    \/ \E p \in Callers, t \in Issued, c \in UpdateCalls : update_get(p, t, c)
    \/ \E p \in Callers : update_srem(p)
    \/ \E p \in Callers : update_set(p)
    \/ \E p \in Callers, t \in Issued : retry_get(p, t)
    \/ \E p \in Callers : retry_set(p)
    \/ \E p \in Callers : retry_sadd(p)
    \/ \E p \in Callers : retry_lpush(p)

SpecRace == Init /\ [][NextRace]_vars

\* ------------------------------------------------- main.py, the handlers
\* HTTP status codes of the DELETE /tasks/<id> handler
HttpOk == 200
HttpBadRequest == 400
HttpForbidden == 403
HttpNotFound == 404

\* POST /agents/content/generate (and /trends/analyze, /video/create): create the
\* task with the defaults and schedule its execute_* background task
generate_content(user_id) ==
    /\ CreateEffects(nextId, user_id, DefaultPriority, DefaultMaxRetries)
    /\ exec' = [exec EXCEPT ![nextId] = [pc |-> "start", user_id |-> user_id, result |-> "r1"]]
    /\ ret' = Returned("generate_content", nextId)
    /\ UNCHANGED <<sent, cancelling, raceVars, wsVars>>

\* execute_*: await task_manager.update_task_status(task_id, "running")
exec_mark_running(t) ==
    /\ exec[t].pc = "start"
    /\ UpdateEffects(t, RUNNING, None, None, None)
    /\ Followed(t, CallName(RUNNING, None))
    /\ exec' = [exec EXCEPT ![t].pc = "generate"]
    /\ ret' = Void
    /\ UNCHANGED <<sent, cancelling, raceVars, wsVars>>

\* execute_*: the crew returned `result`; await task_manager.complete_task
exec_complete(t, result) ==
    /\ exec[t].pc = "generate"
    /\ UpdateEffects(t, COMPLETED, Some(100), None, Some(result))
    /\ Followed(t, CallName(COMPLETED, Some(100)))
    /\ exec' = [exec EXCEPT ![t].pc = "notify_completed", ![t].result = result]
    /\ ret' = Void
    /\ UNCHANGED <<sent, cancelling, raceVars, wsVars>>

\* execute_*: the crew raised; await task_manager.fail_task(task_id, str(e))
exec_fail(t) ==
    /\ exec[t].pc = "generate"
    /\ UpdateEffects(t, FAILED, None, Some(Boom), None)
    /\ Followed(t, CallName(FAILED, None))
    /\ exec' = [exec EXCEPT ![t].pc = "notify_failed"]
    /\ ret' = Void
    /\ UNCHANGED <<sent, cancelling, raceVars, wsVars>>

\* the notification send_task_update is asked to deliver
TaskUpdate(user_id, t, status) == [user_id |-> user_id, task_id |-> t, status |-> status]

\* the WebSocketManager instance of main.py: nothing calls connect on it, so
\* its active_connections stays as __init__ made it
MainConnections == [u \in Users |-> None]

\* a delivery failure that is raised to the caller of send_task_update
SendRaises_OnFailure(delivered_ok) == ~delivered_ok

\* send_personal_message returns False for a user that is not connected and
\* catches every Exception of the send: nothing reaches the caller
SendRaises(delivered_ok) == FALSE

\* execute_*: await websocket_manager.send_task_update(user_id=request.user_id, ...)
\* on main.py's instance; an exception raised by the notification of a
\* completion would be caught by the except clause, which calls fail_task
exec_notify(t) ==
    /\ exec[t].pc \in {"notify_completed", "notify_failed"}
    /\ sent' = Append(sent, TaskUpdate(exec[t].user_id, t,
                         IF exec[t].pc = "notify_completed" THEN COMPLETED ELSE FAILED))
    /\ ret' = Void
    /\ IF SendRaises(MainConnections[exec[t].user_id] # None) /\ exec[t].pc = "notify_completed"
       THEN /\ UpdateEffects(t, FAILED, None, Some(Boom), None)
            /\ Followed(t, "other")
            /\ exec' = [exec EXCEPT ![t].pc = "notify_failed"]
       ELSE /\ exec' = [exec EXCEPT ![t].pc = "done"]
            /\ UNCHANGED <<storeVars, clientVars, histVars, scenario>>
    /\ UNCHANGED <<cancelling, raceVars, wsVars>>

\* DELETE /tasks/<id>: read the record, answer 404, 403 or 400, or go on to cancel
cancel_check(t, user_id) ==
    /\ IF ~Exists(t)
       THEN ret' = Returned("cancel", HttpNotFound) /\ UNCHANGED cancelling
       ELSE IF tasks[t].user_id # user_id
       THEN ret' = Returned("cancel", HttpForbidden) /\ UNCHANGED cancelling
       ELSE IF tasks[t].status \in {COMPLETED, FAILED, CANCELLED}
       THEN ret' = Returned("cancel", HttpBadRequest) /\ UNCHANGED cancelling
       ELSE cancelling' = cancelling \cup {t} /\ UNCHANGED ret
    /\ UNCHANGED <<storeVars, clientVars, histVars, scenario, exec, sent, raceVars, wsVars>>

\* DELETE /tasks/<id>: await task_manager.cancel_task(task_id, "Cancelled by user")
cancel_apply(t) ==
    /\ t \in cancelling
    /\ UpdateEffects(t, CANCELLED, None, Some(CancelledByUser), None)
    /\ Followed(t, CallName(CANCELLED, None))
    /\ cancelling' = cancelling \ {t}
    /\ ret' = Returned("cancel", HttpOk)
    /\ UNCHANGED <<exec, sent, raceVars, wsVars>>

\* the request handlers and background tasks of main.py, interleaved at their awaits
NextMain ==
    \/ nextId <= MaxTasks /\ \E u \in Users : generate_content(u)
    \/ \E t \in Issued : exec_mark_running(t)
    \/ \E t \in Issued, r \in Results : exec_complete(t, r)
    \/ \E t \in Issued : exec_fail(t)
    \/ \E t \in Issued : exec_notify(t)
    \/ \E t \in Issued : update_task_status(t, Some(50))
    \/ \E t \in Issued, u \in Users : cancel_check(t, u)
    \/ \E t \in Issued : cancel_apply(t)

SpecMain == Init /\ [][NextMain]_vars

\* ------------------------------------- WebSocketManager and its endpoint
\* websocket_routes.py runs one websocket_endpoint coroutine per channel. Each
\* action is the code between two awaits that can suspend the coroutine;
\* acquiring the free asyncio.Lock does not suspend, waiting for a held one does.
ConnectionEstablished == "connection_established"

\* connect's stores: the channel, an empty subscription set, fresh metadata
Registered(u, c) ==
    /\ active_connections' = [active_connections EXCEPT ![u] = Some(c)]
    /\ subscriptions' = [subscriptions EXCEPT ![u] = Some({})]
    /\ connection_metadata' = [connection_metadata EXCEPT ![u] =
            Some([connected_at |-> now, last_activity |-> now, message_count |-> 0])]

\* disconnect's deletes
Unregistered(u) ==
    /\ active_connections' = [active_connections EXCEPT ![u] = None]
    /\ subscriptions' = [subscriptions EXCEPT ![u] = None]
    /\ connection_metadata' = [connection_metadata EXCEPT ![u] = None]

\* where the endpoint goes on when disconnect returns to its caller: after a
\* failed send into the receive loop, after the finally clause to its end;
\* connect returning from its inner disconnect releases a lock that is no
\* longer held, and the RuntimeError ends the endpoint
Resume(ctx) == IF ctx = "send" THEN "listen" ELSE "done"

\* the endpoint when disconnect returns to its caller
Returning(c) ==
    endpoint' = [endpoint EXCEPT ![c].pc = Resume(endpoint[c].ctx), ![c].ctx = "none"]

\* websocket_endpoint: await websocket.accept(), then call connect; channels are
\* numbered in the order in which they are accepted
websocket_endpoint(c, u) ==
    /\ endpoint[c].pc = "new"
    /\ \A d \in Channels : d < c => endpoint[d].pc # "new"
    /\ endpoint' = [endpoint EXCEPT ![c] = [pc |-> "connect", user_id |-> u, ctx |-> "none"]]
    /\ UNCHANGED <<taskVars, bg, active_connections, subscriptions, connection_metadata, lock,
                   channel, delivered>>

\* connect: async with self._lock; a user already registered is disconnected
\* first by a call of self.disconnect made while the lock is held
connect(c) ==
    /\ endpoint[c].pc = "connect"
    /\ lock = None
    /\ IF active_connections[endpoint[c].user_id] # None
       THEN /\ lock' = Some(c)
            /\ endpoint' = [endpoint EXCEPT ![c].pc = "disconnect", ![c].ctx = "connect"]
            /\ UNCHANGED <<active_connections, subscriptions, connection_metadata>>
       ELSE /\ Registered(endpoint[c].user_id, c)
            /\ endpoint' = [endpoint EXCEPT ![c].pc = "welcome"]
            /\ UNCHANGED lock
    /\ UNCHANGED <<taskVars, bg, channel, delivered>>

\* disconnect: async with self._lock; a registered user's channel is closed,
\* an error of close() is swallowed; an unregistered user is left alone
disconnect(c) ==
    /\ endpoint[c].pc = "disconnect"
    /\ lock = None
    /\ IF active_connections[endpoint[c].user_id] # None
       THEN /\ lock' = Some(c)
            /\ channel' = [channel EXCEPT ![active_connections[endpoint[c].user_id][1]] =
                              IF @ = "open" THEN "closed" ELSE @]
            /\ endpoint' = [endpoint EXCEPT ![c].pc = "cleanup"]
            /\ UNCHANGED <<active_connections, subscriptions, connection_metadata>>
       ELSE /\ IF endpoint[c].ctx = "connect"
               THEN Registered(endpoint[c].user_id, c)
               ELSE UNCHANGED <<active_connections, subscriptions, connection_metadata>>
            /\ Returning(c)
            /\ UNCHANGED <<lock, channel>>
    /\ UNCHANGED <<taskVars, bg, delivered>>

\* disconnect after await websocket.close(): delete the user's entries, release
\* the lock, return to the caller
disconnect_cleanup(c) ==
    /\ endpoint[c].pc = "cleanup"
    /\ lock' = None
    /\ IF endpoint[c].ctx = "connect"
       THEN Registered(endpoint[c].user_id, c)
       ELSE Unregistered(endpoint[c].user_id)
    /\ Returning(c)
    /\ UNCHANGED <<taskVars, bg, channel, delivered>>

\* send_personal_message of the welcome message: False for a user that is not
\* registered; send_text on the registered channel, and disconnect when it raises
send_personal_message(c) ==
    /\ endpoint[c].pc = "welcome"
    /\ IF active_connections[endpoint[c].user_id] = None
       THEN /\ endpoint' = [endpoint EXCEPT ![c].pc = "listen"]
            /\ UNCHANGED delivered
       ELSE IF channel[active_connections[endpoint[c].user_id][1]] = "open"
            THEN /\ delivered' = [delivered EXCEPT ![active_connections[endpoint[c].user_id][1]] =
                                    Append(@, <<ConnectionEstablished, c>>)]
                 /\ endpoint' = [endpoint EXCEPT ![c].pc = "sent"]
            ELSE /\ endpoint' = [endpoint EXCEPT ![c].pc = "disconnect", ![c].ctx = "send"]
                 /\ UNCHANGED delivered
    /\ UNCHANGED <<taskVars, bg, active_connections, subscriptions, connection_metadata, lock, channel>>

\* send_personal_message after await send_text: count the message in the
\* metadata the user has now, return True
send_personal_message_sent(c) ==
    /\ endpoint[c].pc = "sent"
    /\ connection_metadata' = [connection_metadata EXCEPT ![endpoint[c].user_id] =
            IF @ = None THEN None
            ELSE Some([@[1] EXCEPT !.last_activity = now, !.message_count = @ + 1])]
    /\ endpoint' = [endpoint EXCEPT ![c].pc = "listen"]
    /\ UNCHANGED <<taskVars, bg, active_connections, subscriptions, lock, channel, delivered>>

\* the client goes away
client_close(c) ==
    /\ endpoint[c].pc # "new"
    /\ channel[c] = "open"
    /\ channel' = [channel EXCEPT ![c] = "gone"]
    /\ UNCHANGED <<taskVars, bg, active_connections, subscriptions, connection_metadata, lock,
                   endpoint, delivered>>

\* the receive loop on a channel that is no longer open: WebSocketDisconnect or
\* the loop condition ends the loop, the finally clause calls disconnect(user_id)
receive_text(c) ==
    /\ endpoint[c].pc = "listen"
    /\ channel[c] # "open"
    /\ endpoint' = [endpoint EXCEPT ![c].pc = "disconnect", ![c].ctx = "finally"]
    /\ UNCHANGED <<taskVars, bg, active_connections, subscriptions, connection_metadata, lock,
                   channel, delivered>>

\* the steps the event loop takes for the endpoint of channel c once it can run
EndpointStep(c) ==
    \/ connect(c)
    \/ disconnect(c)
    \/ disconnect_cleanup(c)
    \/ send_personal_message(c)
    \/ send_personal_message_sent(c)
    \/ receive_text(c)

NextWS ==
    \/ \E c \in Channels, u \in Users : websocket_endpoint(c, u)
    \/ \E c \in Channels : connect(c)
    \/ \E c \in Channels : disconnect(c)
    \/ \E c \in Channels : disconnect_cleanup(c)
    \/ \E c \in Channels : send_personal_message(c)
    \/ \E c \in Channels : send_personal_message_sent(c)
    \/ \E c \in Channels : client_close(c)
    \/ \E c \in Channels : receive_text(c)

\* the asyncio event loop runs every coroutine that is ready to run
SpecWS == Init /\ [][NextWS]_vars /\ \A c \in Channels : WF_vars(EndpointStep(c))

\* --------------------------- WebSocketManager API, called in the background
\* One background coroutine calls the manager of websocket_routes.py while the
\* endpoints run. bg.todo are the users its call still has to disconnect.
ApiCaller == 0

\* the registry lock as seen by the background coroutine
registryVars == <<active_connections, subscriptions, connection_metadata>>

\* the time to live every SET of a task document is given (ex=86400), in
\* readings of the clock: one reading is twelve hours
Retention == 2

\* when redis drops the key of a document: every SET of create_task,
\* update_task_status and retry_task writes updated_at = now and starts the
\* time to live again
ExpireAt(task_data) == task_data.updated_at + Retention

\* datetime.now() advances; redis no longer holds the task keys whose time to
\* live has run out, the sets and the lists have no time to live
Tick ==
    /\ now < MaxTime
    /\ now' = now + 1
    /\ tasks' = [t \in TaskIds |->
                    IF Exists(t) /\ ExpireAt(tasks[t]) <= now + 1 THEN NoTask ELSE tasks[t]]
    /\ UNCHANGED <<queue, active_tasks, user_tasks, nextId, decode_responses, mainVars, ret,
                   histVars, scenario, raceVars, wsVars>>

\* the max_age_hours cleanup_expired_tasks is called with, in readings of the clock
MaxAges == {1}

\* cleanup_expired_tasks: the task documents whose created_at is before the cutoff
Expired(max_age_hours) ==
    {t \in TaskIds : Exists(t) /\ tasks[t].created_at < now - max_age_hours}

\* cleanup_expired_tasks(max_age_hours): for every task key with created_at before
\* now - max_age_hours, DELETE the key, SREM the ID from the owner's set and from
\* active_tasks; return the number of tasks cleaned
cleanup_expired_tasks(max_age_hours) ==
    /\ tasks' = [t \in TaskIds |-> IF t \in Expired(max_age_hours) THEN NoTask ELSE tasks[t]]
    /\ user_tasks' = [u \in Users |->
          user_tasks[u] \ {t \in Expired(max_age_hours) : tasks[t].user_id = u}]
    /\ active_tasks' = active_tasks \ Expired(max_age_hours)
    /\ ret' = Returned("cleanup_expired_tasks", Cardinality(Expired(max_age_hours)))
    /\ UNCHANGED <<queue, clientVars, mainVars, histVars, scenario, raceVars, wsVars>>

\* the max_inactive_minutes cleanup_inactive_connections is called with
Thresholds == {1}

\* minutes since the last activity recorded for a user
InactiveDuration(u) == now - connection_metadata[u][1].last_activity

\* the sweep's test with the threshold one minute late
Inactive_Late(inactive_duration, max_inactive_minutes) ==
    inactive_duration > max_inactive_minutes + 1

\* cleanup_inactive_connections: inactive_duration > max_inactive_minutes
Inactive(inactive_duration, max_inactive_minutes) ==
    inactive_duration > max_inactive_minutes

\* the call's disconnect(u) returned: go on with the next user, or return
Disconnected(u) ==
    IF bg.todo \ {u} = {}
    THEN bg' = Idle /\ ret' = Returned(bg.op, bg.result)
    ELSE bg' = [bg EXCEPT !.todo = @ \ {u}, !.pc = "disconnect"] /\ UNCHANGED ret

\* await self.disconnect(user_id) for one of the collected users: acquire the
\* lock and close the registered channel, or find the user unregistered
bg_disconnect ==
    /\ bg.op # "idle"
    /\ bg.pc = "disconnect"
    /\ lock = None
    /\ \E u \in bg.todo :
         IF active_connections[u] # None
         THEN /\ lock' = Some(ApiCaller)
              /\ channel' = [channel EXCEPT ![active_connections[u][1]] =
                                IF @ = "open" THEN "closed" ELSE @]
              /\ bg' = [bg EXCEPT !.pc = "cleanup", !.user_id = u]
              /\ UNCHANGED ret
         ELSE /\ Disconnected(u)
              /\ UNCHANGED <<lock, channel>>
    /\ UNCHANGED <<quietVars, registryVars, endpoint, delivered>>

\* disconnect after await websocket.close(): delete the entries, release the lock
bg_disconnect_cleanup ==
    /\ bg.op # "idle"
    /\ bg.pc = "cleanup"
    /\ Unregistered(bg.user_id)
    /\ lock' = None
    /\ Disconnected(bg.user_id)
    /\ UNCHANGED <<quietVars, endpoint, channel, delivered>>

\* cleanup_inactive_connections(max_inactive_minutes): collect the users whose
\* metadata is older than the threshold, then disconnect them one by one
cleanup_inactive_connections(max_inactive_minutes) ==
    /\ bg = Idle
    /\ LET inactive_users == { u \in Users : /\ connection_metadata[u] # None
                                            /\ Inactive(InactiveDuration(u), max_inactive_minutes) }
       IN  IF inactive_users = {}
           THEN /\ ret' = Returned("cleanup_inactive_connections", 0)
                /\ UNCHANGED bg
           ELSE /\ bg' = [ op |-> "cleanup_inactive_connections", pc |-> "disconnect",
                           todo |-> inactive_users, user_id |-> "u1",
                           result |-> Cardinality(inactive_users) ]
                /\ UNCHANGED ret
    /\ UNCHANGED <<quietVars, registryVars, lock, endpoint, channel, delivered>>

\* the task_update message send_task_update builds
TaskUpdateType == "task_update"
TaskUpdateMessage(task_id, status) == <<TaskUpdateType, task_id, status>>

\* the updates the background coroutine is asked to send
UpdateInputs == {<<1, COMPLETED>>}

\* send_personal_message's channel taken from any connected user
Addressee_AnyConnected(user_id) ==
    active_connections[CHOOSE u \in Users : active_connections[u] # None][1]

\* send_personal_message: websocket = self.active_connections[user_id]
Addressee(user_id) == active_connections[user_id][1]

\* send_text that is taken to succeed on any channel
SendSucceeds_Always(w) == TRUE

\* await websocket.send_text(...) raises unless the channel is open
SendSucceeds(w) == channel[w] = "open"

\* send_task_update(user_id, task_id, status): build the message and await
\* send_personal_message, which returns False for a user that is not connected,
\* sends on the registered channel, and on an exception disconnects the user
send_task_update(user_id, task_id, status) ==
    /\ bg = Idle
    /\ \A c \in Channels : Len(delivered[c]) < MaxMessages
    /\ IF active_connections[user_id] = None
       THEN /\ ret' = Returned("send_personal_message", FALSE)
            /\ UNCHANGED <<bg, delivered>>
       ELSE IF SendSucceeds(Addressee(user_id))
            THEN /\ delivered' = [delivered EXCEPT ![Addressee(user_id)] =
                                    Append(@, TaskUpdateMessage(task_id, status))]
                 /\ bg' = [ op |-> "send_personal_message", pc |-> "sent", todo |-> {},
                            user_id |-> user_id, result |-> TRUE ]
                 /\ UNCHANGED ret
            ELSE /\ bg' = [ op |-> "send_personal_message", pc |-> "disconnect",
                            todo |-> {user_id}, user_id |-> user_id, result |-> FALSE ]
                 /\ UNCHANGED <<ret, delivered>>
    /\ UNCHANGED <<quietVars, registryVars, lock, endpoint, channel>>

\* send_personal_message after await send_text: count the message in the
\* metadata the user has now, return True
bg_sent ==
    /\ bg.op = "send_personal_message"
    /\ bg.pc = "sent"
    /\ connection_metadata' = [connection_metadata EXCEPT ![bg.user_id] =
            IF @ = None THEN None
            ELSE Some([@[1] EXCEPT !.last_activity = now, !.message_count = @ + 1])]
    /\ bg' = Idle
    /\ ret' = Returned(bg.op, bg.result)
    /\ UNCHANGED <<quietVars, active_connections, subscriptions, lock, endpoint, channel, delivered>>

\* the endpoints, the clock and the idle sweep
NextSweep ==
    \/ \E c \in Channels, u \in Users : websocket_endpoint(c, u)
    \/ \E c \in Channels : connect(c)
    \/ \E c \in Channels : disconnect(c)
    \/ \E c \in Channels : disconnect_cleanup(c)
    \/ \E c \in Channels : send_personal_message(c)
    \/ \E c \in Channels : send_personal_message_sent(c)
    \/ \E c \in Channels : client_close(c)
    \/ \E c \in Channels : receive_text(c)
    \/ Tick
    \/ \E m \in Thresholds : cleanup_inactive_connections(m)
    \/ bg_disconnect
    \/ bg_disconnect_cleanup

SpecSweep == Init /\ [][NextSweep]_vars

\* the endpoints and task updates sent in the background
NextSend ==
    \/ \E c \in Channels, u \in Users : websocket_endpoint(c, u)
    \/ \E c \in Channels : connect(c)
    \/ \E c \in Channels : disconnect(c)
    \/ \E c \in Channels : disconnect_cleanup(c)
    \/ \E c \in Channels : send_personal_message(c)
    \/ \E c \in Channels : send_personal_message_sent(c)
    \/ \E c \in Channels : client_close(c)
    \/ \E c \in Channels : receive_text(c)
    \/ \E u \in Users, m \in UpdateInputs : send_task_update(u, m[1], m[2])
    \/ bg_sent
    \/ bg_disconnect
    \/ bg_disconnect_cleanup

SpecSend == Init /\ [][NextSend]_vars

\* the message send_system_alert hands to broadcast_message
SystemAlert == <<"system_alert", 0, "info">>

\* the exclude_users lists broadcast_message is called with
ExcludeInputs == {{}, {"u1"}}

\* the keys of active_connections
Connected == {u \in Users : active_connections[u] # None}

\* what a dictionary iterator raises when the dictionary changed size
RuntimeError == "RuntimeError"

\* the orders in which a dictionary can hold the users
Orders == { o \in [1..Cardinality(Users) -> Users] : \A u \in Users : \E i \in DOMAIN o : o[i] = u }

\* broadcast_message's loop from position i of the dictionary up to the next
\* send that suspends the coroutine, or to the end of the dictionary: a user
\* on the exclude list is skipped, a send that raises puts the user on
\* disconnected_users (and its channel on broken, for the record)
RECURSIVE Walk(_, _, _, _, _)
Walk(order, exclude_users, i, failed, broken) ==
    IF i > Len(order)
    THEN [stop |-> "end", i |-> i, failed |-> failed, broken |-> broken]
    ELSE IF active_connections[order[i]] = None \/ order[i] \in exclude_users
         THEN Walk(order, exclude_users, i + 1, failed, broken)
         ELSE IF SendSucceeds(Addressee(order[i]))
              THEN [stop |-> "send", i |-> i, failed |-> failed, broken |-> broken]
              ELSE Walk(order, exclude_users, i + 1, failed \cup {order[i]},
                        broken \cup {Addressee(order[i])})

\* the loop goes on to where w says: the send to the next user, the disconnects
\* of the collected users, or the return
Advance(call, w) ==
    IF w.stop = "send"
    THEN /\ delivered' = [delivered EXCEPT ![Addressee(call.order[w.i])] = Append(@, SystemAlert)]
         /\ bg' = [call EXCEPT !.pc = "sent", !.i = w.i, !.user_id = call.order[w.i],
                               !.failed = w.failed, !.broken = w.broken]
         /\ UNCHANGED ret
    ELSE /\ IF w.failed = {}
            THEN bg' = Idle /\ ret' = Returned(call.op, call.result)
            ELSE /\ bg' = [call EXCEPT !.pc = "disconnect", !.i = w.i, !.failed = w.failed,
                                       !.broken = w.broken, !.todo = w.failed]
                 /\ UNCHANGED ret
         /\ UNCHANGED delivered

\* broadcast_message(message, exclude_users): iterate over
\* self.active_connections.items() up to the first send that suspends
broadcast_message(exclude_users, order) ==
    /\ bg = Idle
    /\ \A c \in Channels : Len(delivered[c]) < MaxMessages
    /\ Advance([ op |-> "broadcast_message", pc |-> "iterate", todo |-> {}, user_id |-> "u1",
                 result |-> None, size |-> Cardinality(Connected), order |-> order, i |-> 1,
                 failed |-> {}, broken |-> {}, exclude_users |-> exclude_users ],
               Walk(order, exclude_users, 1, {}, {}))
    /\ UNCHANGED <<quietVars, registryVars, lock, endpoint, channel>>

\* broadcast_message after await send_text: count the message in the metadata
\* the user has now and go on with the loop; the iterator raises RuntimeError
\* when the dictionary changed size in the meantime
broadcast_sent ==
    /\ bg.op = "broadcast_message"
    /\ bg.pc = "sent"
    /\ connection_metadata' = [connection_metadata EXCEPT ![bg.user_id] =
            IF @ = None THEN None
            ELSE Some([@[1] EXCEPT !.last_activity = now, !.message_count = @ + 1])]
    /\ IF Cardinality(Connected) # bg.size
       THEN /\ bg' = Idle
            /\ ret' = Returned(bg.op, Some(RuntimeError))
            /\ UNCHANGED delivered
       ELSE Advance(bg, Walk(bg.order, bg.exclude_users, bg.i + 1, bg.failed, bg.broken))
    /\ UNCHANGED <<quietVars, active_connections, subscriptions, lock, endpoint, channel>>

\* the endpoints and broadcasts made in the background
NextBroadcast ==
    \/ \E c \in Channels, u \in Users : websocket_endpoint(c, u)
    \/ \E c \in Channels : connect(c)
    \/ \E c \in Channels : disconnect(c)
    \/ \E c \in Channels : disconnect_cleanup(c)
    \/ \E c \in Channels : send_personal_message(c)
    \/ \E c \in Channels : send_personal_message_sent(c)
    \/ \E c \in Channels : client_close(c)
    \/ \E c \in Channels : receive_text(c)
    \/ \E x \in ExcludeInputs, o \in Orders : broadcast_message(x, o)
    \/ broadcast_sent
    \/ bg_disconnect
    \/ bg_disconnect_cleanup

SpecBroadcast == Init /\ [][NextBroadcast]_vars

\* ------------------------------- broadcast_message when a client stops reading
\* the send broadcast_message is awaiting is to a channel that takes no more data
Stalled ==
    /\ bg.op = "broadcast_message"
    /\ bg.pc = "sent"
    /\ active_connections[bg.user_id] # None
    /\ channel[Addressee(bg.user_id)] = "stalled"

\* the client of the awaited send stops reading: send_text neither returns nor
\* raises from now on, and nothing bounds the await
send_stalls ==
    /\ bg.op = "broadcast_message"
    /\ bg.pc = "sent"
    /\ active_connections[bg.user_id] # None
    /\ channel[Addressee(bg.user_id)] = "open"
    /\ endpoint[Addressee(bg.user_id)].pc = "listen"
    /\ channel' = [channel EXCEPT ![Addressee(bg.user_id)] = "stalled"]
    /\ UNCHANGED <<taskVars, bg, active_connections, subscriptions, connection_metadata, lock,
                   endpoint, delivered>>

\* await send_text returns and the loop goes on
send_completes ==
    /\ ~Stalled
    /\ broadcast_sent

NextStall ==
    \/ \E c \in Channels, u \in Users : websocket_endpoint(c, u)
    \/ \E c \in Channels : connect(c)
    \/ \E c \in Channels : send_personal_message(c)
    \/ \E c \in Channels : send_personal_message_sent(c)
    \/ \E x \in ExcludeInputs, o \in Orders : broadcast_message(x, o)
    \/ send_stalls
    \/ send_completes

\* the event loop runs every coroutine that is ready to run: the endpoints up
\* to their receive loop, where they wait for the client, and the broadcast
SpecStall ==
    /\ Init
    /\ [][NextStall]_vars
    /\ \A c \in Channels :
          WF_vars(connect(c) \/ send_personal_message(c) \/ send_personal_message_sent(c))
    /\ WF_vars(send_completes)

\* the subscription types clients name
Topics == {"agent_updates"}

\* add_subscription(user_id, subscription_type): make the user's set when there
\* is none, add the type
add_subscription(user_id, subscription_type) ==
    /\ subscriptions' = [subscriptions EXCEPT ![user_id] =
            Some((IF @ = None THEN {} ELSE @[1]) \cup {subscription_type})]
    /\ ret' = Void
    /\ UNCHANGED <<quietVars, active_connections, connection_metadata, lock, endpoint, channel,
                   delivered, bg>>

\* remove_subscription(user_id, subscription_type): discard the type from the
\* set of a user that has one
remove_subscription(user_id, subscription_type) ==
    /\ subscriptions' = [subscriptions EXCEPT ![user_id] =
            IF @ = None THEN None ELSE Some(@[1] \ {subscription_type})]
    /\ ret' = Void
    /\ UNCHANGED <<quietVars, active_connections, connection_metadata, lock, endpoint, channel,
                   delivered, bg>>

\* the endpoints and the subscription calls of the manager
NextSubscriptions ==
    \/ \E c \in Channels, u \in Users : websocket_endpoint(c, u)
    \/ \E c \in Channels : connect(c)
    \/ \E c \in Channels : disconnect(c)
    \/ \E c \in Channels : disconnect_cleanup(c)
    \/ \E c \in Channels : send_personal_message(c)
    \/ \E c \in Channels : send_personal_message_sent(c)
    \/ \E c \in Channels : client_close(c)
    \/ \E c \in Channels : receive_text(c)
    \/ \E u \in Users, s \in Topics : add_subscription(u, s)
    \/ \E u \in Users, s \in Topics : remove_subscription(u, s)

SpecSubscriptions == Init /\ [][NextSubscriptions]_vars

\* ------------------------------------------------------ get_user_tasks
\* the (limit, status_filter, offset) get_user_tasks is called with
ListingInputs == {<<l, f, o>> : l \in 1..2, f \in {None, Some(PENDING)}, o \in 0..1}

\* the documents get_user_tasks collects: the IDs of the user's set whose
\* document exists and has the status asked for, when one is asked for
Collected(user_id, status_filter) ==
    {t \in user_tasks[user_id] :
        /\ Exists(t)
        /\ status_filter # None => tasks[t].status = status_filter[1]}

\* tasks.sort(key=created_at, reverse=True) of documents collected from a set:
\* every order with created_at descending, documents of one created_at in the
\* order the set gave them
SortedByCreated(S) ==
    {o \in [1..Cardinality(S) -> S] :
        /\ \A t \in S : \E i \in DOMAIN o : o[i] = t
        /\ \A i, j \in DOMAIN o : i < j => tasks[o[i]].created_at >= tasks[o[j]].created_at}

\* tasks[start:end] for start and end that are not negative
Slice(list, start, end) ==
    SubSeq(list, start + 1, IF end < Len(list) THEN end ELSE Len(list))

\* get_user_tasks(user_id, limit, status_filter, offset): SMEMBERS of the
\* user's set, [] when it is empty; task_id.decode() of a str raises and the
\* except clause returns []; else the collected documents sorted and sliced.
\* A returned document is written as the ID of its task
get_user_tasks(user_id, limit, status_filter, offset) ==
    /\ IF user_tasks[user_id] = {} \/ decode_responses
       THEN ret' = Returned("get_user_tasks", <<>>)
       ELSE \E sorted \in SortedByCreated(Collected(user_id, status_filter)) :
               ret' = Returned("get_user_tasks", Slice(sorted, offset, offset + limit))
    /\ UNCHANGED <<storeVars, clientVars, mainVars, histVars, scenario, raceVars, wsVars>>

\* tasks of several users, ages and statuses, and listings of a user's tasks
NextListing ==
    \/ nextId <= MaxQueueTasks /\ \E c \in CreateInputs : create_task(c[1], c[2], c[3])
    \/ \E t \in Issued : fail_task(t, Boom)
    \/ Tick
    \/ \E u \in Users, x \in ListingInputs : get_user_tasks(u, x[1], x[2], x[3])

SpecListing == Init /\ [][NextListing]_vars

\* ------------------------------------------------- send_to_subscribers
\* the message handed to send_to_subscribers, with the subscription_type the
\* call adds to it
TopicMessage(subscription_type) == <<"agent_update", 0, subscription_type>>

\* the keys of subscriptions
WithSubscriptions == {u \in Users : subscriptions[u] # None}

\* the loop's test: subscription_type in subscriptions and user_id in
\* self.active_connections
Subscriber(u, subscription_type) ==
    /\ subscriptions[u] # None
    /\ subscription_type \in subscriptions[u][1]
    /\ active_connections[u] # None

\* send_to_subscribers' loop from position i of the subscriptions dictionary up
\* to the next send that suspends the coroutine, or to the end of the
\* dictionary: a send that raises puts the user on disconnected_users
RECURSIVE SubscriberWalk(_, _, _, _)
SubscriberWalk(order, subscription_type, i, failed) ==
    IF i > Len(order)
    THEN [stop |-> "end", i |-> i, failed |-> failed]
    ELSE IF ~Subscriber(order[i], subscription_type)
         THEN SubscriberWalk(order, subscription_type, i + 1, failed)
         ELSE IF SendSucceeds(Addressee(order[i]))
              THEN [stop |-> "send", i |-> i, failed |-> failed]
              ELSE SubscriberWalk(order, subscription_type, i + 1, failed \cup {order[i]})

\* the loop goes on to where w says: the send to the next subscriber, the
\* disconnects of the collected users, or the return
SubscriberAdvance(call, w) ==
    IF w.stop = "send"
    THEN /\ delivered' = [delivered EXCEPT ![Addressee(call.order[w.i])] =
                             Append(@, TopicMessage(call.subscription_type))]
         /\ bg' = [call EXCEPT !.pc = "sent", !.i = w.i, !.user_id = call.order[w.i],
                               !.failed = w.failed]
         /\ UNCHANGED ret
    ELSE /\ IF w.failed = {}
            THEN bg' = Idle /\ ret' = Returned(call.op, call.result)
            ELSE /\ bg' = [call EXCEPT !.pc = "disconnect", !.i = w.i, !.failed = w.failed,
                                       !.todo = w.failed]
                 /\ UNCHANGED ret
         /\ UNCHANGED delivered

\* how many times the message is on a channel
Copies(c, subscription_type) ==
    Cardinality({i \in 1..Len(delivered[c]) : delivered[c][i][1] = TopicMessage(subscription_type)[1]})

\* send_to_subscribers(subscription_type, message): iterate over
\* self.subscriptions.items() up to the first send that suspends. For the
\* record the call keeps who was a connected subscriber with an open channel
\* when it began (eligible, 0 for the others) and the copies each channel had
send_to_subscribers(subscription_type, order) ==
    /\ bg = Idle
    /\ \A c \in Channels : Len(delivered[c]) < MaxMessages
    /\ SubscriberAdvance(
          [ op |-> "send_to_subscribers", pc |-> "iterate", todo |-> {}, user_id |-> "u1",
            result |-> None, size |-> Cardinality(WithSubscriptions), order |-> order, i |-> 1,
            failed |-> {}, subscription_type |-> subscription_type,
            eligible |-> [u \in Users |->
                            IF Subscriber(u, subscription_type) /\ SendSucceeds(Addressee(u))
                            THEN Addressee(u) ELSE 0],
            had |-> [c \in Channels |-> Copies(c, subscription_type)] ],
          SubscriberWalk(order, subscription_type, 1, {}))
    /\ UNCHANGED <<quietVars, registryVars, lock, endpoint, channel>>

\* send_to_subscribers after await send_text: count the message in the
\* metadata the user has now and go on with the loop; the iterator raises
\* RuntimeError when the dictionary changed size in the meantime
send_to_subscribers_sent ==
    /\ bg.op = "send_to_subscribers"
    /\ bg.pc = "sent"
    /\ connection_metadata' = [connection_metadata EXCEPT ![bg.user_id] =
            IF @ = None THEN None
            ELSE Some([@[1] EXCEPT !.last_activity = now, !.message_count = @ + 1])]
    /\ IF Cardinality(WithSubscriptions) # bg.size
       THEN /\ bg' = Idle
            /\ ret' = Returned(bg.op, Some(RuntimeError))
            /\ UNCHANGED delivered
       ELSE SubscriberAdvance(bg, SubscriberWalk(bg.order, bg.subscription_type, bg.i + 1, bg.failed))
    /\ UNCHANGED <<quietVars, active_connections, subscriptions, lock, endpoint, channel>>

\* the endpoints, subscriptions and messages sent to the subscribers of a topic
NextSubscribers ==
    \/ NextWS
    \/ \E u \in Users, s \in Topics : add_subscription(u, s)
    \/ \E s \in Topics, o \in Orders : send_to_subscribers(s, o)
    \/ send_to_subscribers_sent
    \/ bg_disconnect
    \/ bg_disconnect_cleanup

SpecSubscribers == Init /\ [][NextSubscribers]_vars

\* ------------------------------------------- messages from the client
\* the timestamps clients put in their pings: no reading of the server's clock
ClientTimestamps == {7}

\* the JSON messages clients send: the type, the timestamp and the
\* subscription_type keys, None for a key that is absent
InboundMessages ==
    {[type |-> "ping", timestamp |-> Some(ts), subscription_type |-> None] :
        ts \in ClientTimestamps}
    \cup {[type |-> ty, timestamp |-> None, subscription_type |-> Some(s)] :
            ty \in {"subscribe_to_updates", "subscribe", "unsubscribe"}, s \in Topics}
    \cup {[type |-> "bogus", timestamp |-> None, subscription_type |-> None]}

\* handle_websocket_message: the message types that have a branch of their own
\* (task_status_request and agent_status_request have one too)
RecognizedTypes == {"ping", "subscribe_to_updates"}

\* message.get("subscription_type", "all")
SubscriptionType(message) ==
    IF message.subscription_type = None THEN "all" ELSE message.subscription_type[1]

\* an answer that hands a message of an unknown type back under its own type
Reply_EchoUnknown(message) ==
    CASE message.type = "ping"
            -> [type |-> "pong", timestamp |-> message.timestamp, subscription_type |-> None]
      [] message.type = "subscribe_to_updates"
            -> [type |-> "subscription_confirmed", timestamp |-> None,
                subscription_type |-> Some(SubscriptionType(message))]
      [] OTHER
            -> [type |-> message.type, timestamp |-> None, subscription_type |-> None]

\* the message handle_websocket_message answers with, as it is handed to
\* send_personal_message
Reply(message) ==
    CASE message.type = "ping"
            -> [type |-> "pong", timestamp |-> message.timestamp, subscription_type |-> None]
      [] message.type = "subscribe_to_updates"
            -> [type |-> "subscription_confirmed", timestamp |-> None,
                subscription_type |-> Some(SubscriptionType(message))]
      [] OTHER
            -> [type |-> "error", timestamp |-> None, subscription_type |-> None]

\* send_personal_message: message["timestamp"] = datetime.now().isoformat()
Stamped(message, clock) == [message EXCEPT !.timestamp = Some(clock)]

\* json.dumps of the message, as it goes over the channel
Wire(message) ==
    IF message.subscription_type = None
    THEN <<message.type, message.timestamp[1]>>
    ELSE <<message.type, message.timestamp[1], message.subscription_type[1]>>

\* the receive loop got a message from the client: handle_websocket_message
\* picks the branch of the type, handle_subscription_request calls
\* add_subscription, and the answer goes through send_personal_message up to its
\* await send_text
handle_websocket_message(c, message) ==
    /\ endpoint[c].pc = "listen"
    /\ channel[c] = "open"
    /\ \A d \in Channels : Len(delivered[d]) < MaxInbound
    /\ subscriptions' =
          IF message.type = "subscribe_to_updates"
          THEN [subscriptions EXCEPT ![endpoint[c].user_id] =
                  Some((IF @ = None THEN {} ELSE @[1]) \cup {SubscriptionType(message)})]
          ELSE subscriptions
    /\ IF active_connections[endpoint[c].user_id] = None
       THEN UNCHANGED <<endpoint, delivered>>
       ELSE IF channel[active_connections[endpoint[c].user_id][1]] = "open"
            THEN /\ delivered' = [delivered EXCEPT ![active_connections[endpoint[c].user_id][1]] =
                                    Append(@, Wire(Stamped(Reply(message), now)))]
                 /\ endpoint' = [endpoint EXCEPT ![c].pc = "sent"]
            ELSE /\ endpoint' = [endpoint EXCEPT ![c].pc = "disconnect", ![c].ctx = "send"]
                 /\ UNCHANGED delivered
    /\ UNCHANGED <<taskVars, bg, active_connections, connection_metadata, lock, channel>>

\* the endpoints with clients that send messages
NextInbound ==
    \/ NextWS
    \/ \E c \in Channels, m \in InboundMessages : handle_websocket_message(c, m)

SpecInbound == Init /\ [][NextInbound]_vars

\* handle_task_status_request's task_manager = TaskManager(): __init__ leaves
\* initialized False and the handler never calls initialize
HandlerManagerInitialized == FALSE

\* what handle_task_status_request answers with, as it goes over the channel:
\* get_task_status of a manager that is not initialized raises RuntimeError and
\* the except clause answers with an error message; else the document read (its
\* status stands for it), or 'Task not found'
StatusResponse(task_id) ==
    IF ~HandlerManagerInitialized
    THEN <<"error", now>>
    ELSE IF Exists(task_id)
         THEN <<"task_status_response", now, tasks[task_id].status, task_id>>
         ELSE <<"task_status_response", now, "Task not found", task_id>>

\* the receive loop got a task_status_request naming task_id:
\* handle_task_status_request, and its answer through send_personal_message up
\* to the await send_text
handle_task_status_request(c, task_id) ==
    /\ endpoint[c].pc = "listen"
    /\ channel[c] = "open"
    /\ \A d \in Channels : Len(delivered[d]) < MaxMessages
    /\ IF active_connections[endpoint[c].user_id] = None
       THEN UNCHANGED <<endpoint, delivered>>
       ELSE IF channel[active_connections[endpoint[c].user_id][1]] = "open"
            THEN /\ delivered' = [delivered EXCEPT ![active_connections[endpoint[c].user_id][1]] =
                                    Append(@, StatusResponse(task_id))]
                 /\ endpoint' = [endpoint EXCEPT ![c].pc = "sent"]
            ELSE /\ endpoint' = [endpoint EXCEPT ![c].pc = "disconnect", ![c].ctx = "send"]
                 /\ UNCHANGED delivered
    /\ UNCHANGED <<taskVars, bg, active_connections, subscriptions, connection_metadata, lock,
                   channel>>

\* the endpoints with clients that ask for the status of tasks, and the task
\* manager of main.py creating and failing tasks
NextStatusRequest ==
    \/ NextWS
    \/ \E c \in Channels, t \in TaskIds : handle_task_status_request(c, t)
    \/ nextId <= MaxTasks /\ \E x \in CreateInputs : create_task(x[1], x[2], x[3])
    \/ \E t \in Issued : fail_task(t, Boom)

SpecStatusRequest == Init /\ [][NextStatusRequest]_vars

\* the endpoints, subscription requests and task updates sent in the background
NextTargeted ==
    \/ NextSend
    \/ \E u \in Users, s \in Topics : add_subscription(u, s)

SpecTargeted == Init /\ [][NextTargeted]_vars

\* status updates of the TaskManager while the clock advances
NextClock ==
    \/ nextId <= MaxTasks /\ \E c \in CreateInputs : create_task(c[1], c[2], c[3])
    \/ \E t \in Issued, p \in ProgressInputs : update_task_status(t, p)
    \/ \E t \in Issued, r \in Results : complete_task(t, r)
    \/ Tick

SpecClock == Init /\ [][NextClock]_vars

\* the progress values workers report: inside the range, lower than an
\* earlier one, above the range and below it
ProgressReports == {Some(50), Some(20), Some(150), Some(-1)}

\* progress reports on a task while the clock advances
NextProgress ==
    \/ nextId <= MaxTasks /\ \E c \in CreateInputs : create_task(c[1], c[2], c[3])
    \/ \E t \in Issued, p \in ProgressReports : update_task_status(t, p)
    \/ Tick

SpecProgress == Init /\ [][NextProgress]_vars

\* tasks of different ages and statuses, consumers, and the expiry sweep
NextExpiry ==
    \/ nextId <= MaxQueueTasks /\ \E c \in CreateInputs : create_task(c[1], c[2], c[3])
    \/ \E t \in Issued : fail_task(t, Boom)
    \/ \E p \in TaskPriority : get_next_task(p)
    \/ Tick
    \/ \E a \in MaxAges : cleanup_expired_tasks(a)

SpecExpiry == Init /\ [][NextExpiry]_vars

\* the endpoints together with the execute_* background tasks of main.py
NextNotify ==
    \/ \E c \in Channels, u \in Users : websocket_endpoint(c, u)
    \/ \E c \in Channels : connect(c)
    \/ \E c \in Channels : disconnect(c)
    \/ \E c \in Channels : disconnect_cleanup(c)
    \/ \E c \in Channels : send_personal_message(c)
    \/ \E c \in Channels : send_personal_message_sent(c)
    \/ \E c \in Channels : client_close(c)
    \/ \E c \in Channels : receive_text(c)
    \/ nextId = 1 /\ \E u \in Users : generate_content(u)
    \/ \E t \in Issued : exec_mark_running(t)
    \/ \E t \in Issued, r \in Results : exec_complete(t, r)
    \/ \E t \in Issued : exec_fail(t)
    \/ \E t \in Issued : exec_notify(t)

SpecNotify == Init /\ [][NextNotify]_vars

\* ------------------------------------------------------------ the claims
\* the order in which repeated get_next_task calls would hand out a queue's IDs
PopOrder(q) == [i \in 1..Len(q) |-> q[Len(q) + 1 - i]]

\* a step that is a call of update_task_status(t, 'running'), complete_task or fail_task
WorkerCallOn(t) ==
    \/ \E p \in ProgressInputs : update_task_status(t, p)
    \/ \E r \in Results : complete_task(t, r)
    \/ fail_task(t, Boom)

\* C1: once a task is completed, failed or cancelled, no later mark-running,
\* progress update, complete_task or fail_task call changes its stored record.
C1_TerminalRecordFrozen ==
    [][\A t \in TaskIds :
         (Exists(t) /\ IsTerminal(tasks[t].status) /\ WorkerCallOn(t))
            => tasks'[t] = tasks[t]]_vars

\* a record that is completed with a result and no error, or failed with an
\* error and no result
OneOutcome(task_data) ==
    \/ /\ task_data.status = COMPLETED
       /\ task_data.result # None
       /\ task_data.error = None
    \/ /\ task_data.status = FAILED
       /\ task_data.error # None
       /\ task_data.result = None

\* C2: when complete_task and fail_task are called once each on a task by
\* concurrent callers, exactly one terminal transition is applied: once the
\* record is terminal the other call leaves it as it is, and when both calls have
\* returned the record is either completed with a result and no error or failed
\* with an error and no result.
C2_OneTerminalTransitionWins ==
    [][\A t \in TaskIds :
         ( /\ Exists(t)
           /\ log' \in { <<<<COMPLETED, t>>, <<FAILED, t>>>>, <<<<FAILED, t>>, <<COMPLETED, t>>>> } )
         => /\ IsTerminal(tasks[t].status) => tasks'[t] = tasks[t]
            /\ (\A p \in Callers : calls'[p] = Idle) => OneOutcome(tasks'[t])]_vars

\* C3: retry_count never exceeds max_retries, also when retry_task calls run
\* concurrently, and a retry_task call that finds retry_count >= max_retries
\* returns False and changes neither the record nor the queues.
C3_RetryBounded ==
    [][/\ \A t \in TaskIds :
            tasks'[t] # NoTask => tasks'[t].retry_count <= tasks'[t].max_retries
       /\ \A p \in Callers, t \in TaskIds :
            ( /\ Exists(t)
              /\ tasks[t].retry_count >= tasks[t].max_retries
              /\ retry_get(p, t) )
            => /\ ret' = Returned("retry_task", FALSE)
               /\ calls'[p] = Idle
               /\ UNCHANGED <<tasks, queue, active_tasks>>]_vars

C3_Witness ==
    \E t \in TaskIds, p \in Callers :
        /\ Exists(t)
        /\ tasks[t].max_retries = 1
        /\ tasks[t].retry_count = 1
        /\ ret = Returned("retry_task", FALSE)
        /\ calls[p] # Idle /\ calls[p].op = "retry"

\* C4: per tier, the IDs handed out by successive get_next_task calls are the
\* IDs pushed into that tier by create_task and retry_task, in push order: what
\* was pushed is what was handed out followed by what is still queued.
C4_FIFO ==
    \A p \in TaskPriority : enq[p] = deq[p] \o PopOrder(queue[p])

\* C5: every task ID in a priority-tier queue is the ID of a task whose status
\* is pending.
C5_QueuedArePending ==
    \A p \in TaskPriority : \A i \in 1..Len(queue[p]) :
        Exists(queue[p][i]) /\ tasks[queue[p][i]].status = PENDING

\* the messages sent over a channel
Messages(c) == {delivered[c][i] : i \in 1..Len(delivered[c])}

\* C6: when connect is called for a user that has a channel registered, the
\* old channel is closed and the registry then maps the user to the new channel;
\* and no message is ever delivered to two channels of one user.
C6_ReconnectReplaces ==
    /\ [](\A c, d \in Channels :
            (c # d /\ endpoint[c].user_id = endpoint[d].user_id)
            => Messages(c) \cap Messages(d) = {})
    /\ \A c, d \in Channels :
         (c # d /\ endpoint[c].pc = "connect"
                /\ active_connections[endpoint[c].user_id] = Some(d))
         ~> (channel[d] # "open" /\ active_connections[endpoint[c].user_id] = Some(c))

\* the task_update notifications attempted for task t
SentFor(t) == SelectSeq(sent, LAMBDA m : m.task_id = t)

\* C7: after create, mark running, progress 50 and complete(r) on a task and
\* nothing else, the record is completed with progress 100, result r and no
\* error, and once the background task has finished exactly one task_update is
\* attempted for the task: status completed, addressed to the task's owner.
C7_Scenario ==
    \A t \in TaskIds :
        (scenario[t] = "completed" /\ exec[t].pc \in {"notify_completed", "done"}) =>
            /\ get_task_status(t) # None
            /\ tasks[t].status = COMPLETED
            /\ tasks[t].progress = 100
            /\ tasks[t].result = Some(exec[t].result)
            /\ tasks[t].error = None
            /\ exec[t].pc = "notify_completed" => SentFor(t) = <<>>
            /\ exec[t].pc = "done" =>
                  SentFor(t) = <<TaskUpdate(tasks[t].user_id, t, COMPLETED)>>

C7_Witness ==
    \E t \in TaskIds :
        /\ scenario[t] = "completed"
        /\ exec[t].pc = "done"
        /\ Exists(t) /\ tasks[t].user_id = "u1"
        /\ Len(sent) = 1

\* C10: a DELETE /tasks/<id> for a task that is completed, failed or cancelled
\* is answered with a rejection and leaves the record as it is, and the
\* handler's cancel_task never overwrites a record that is already terminal.
C10_CancelRejectedWhenTerminal ==
    [][\A t \in TaskIds :
         (Exists(t) /\ IsTerminal(tasks[t].status)) =>
            /\ (\E u \in Users : cancel_check(t, u)) =>
                  (ret'.op = "cancel" /\ ret'.value # HttpOk /\ tasks' = tasks)
            /\ cancel_apply(t) => tasks'[t] = tasks[t]]_vars

\* C8: right after create_task the record read back is pending with progress 0,
\* no result, no error and retry_count 0, and the new ID has been put at the
\* enqueue end of the requested tier's queue and of no other queue.
C8_CreateThenGet ==
    [][\A c \in CreateInputs :
         create_task(c[1], c[2], c[3]) =>
            /\ ret'.op = "create_task"
            /\ GetFrom(tasks', ret'.value) # None
            /\ LET got == GetFrom(tasks', ret'.value)[1] IN
                  /\ got.status = PENDING
                  /\ got.progress = 0
                  /\ got.result = None
                  /\ got.error = None
                  /\ got.retry_count = 0
            /\ \A q \in TaskPriority :
                  PopOrder(queue'[q]) = IF q = c[2] THEN Append(PopOrder(queue[q]), ret'.value)
                                                   ELSE PopOrder(queue[q])]_vars

C8_Witness ==
    /\ ret.op = "create_task"
    /\ Exists(ret.value)
    /\ tasks[ret.value].priority = "high"
    /\ queue["high"] # <<>>

\* C9: result and error are never both set, and neither is set while the task is
\* pending or running.
C9_ResultErrorExclusive ==
    \A t \in TaskIds : Exists(t) =>
        /\ ~(tasks[t].result # None /\ tasks[t].error # None)
        /\ tasks[t].status \in {PENDING, RUNNING} =>
              (tasks[t].result = None /\ tasks[t].error = None)

\* C11: retry_task succeeds only on a failed task; on a pending, running,
\* completed or cancelled task it fails and changes neither the record nor any
\* queue.
C11_RetryOnlyFromFailed ==
    [][\A t \in TaskIds :
         (Exists(t) /\ tasks[t].status # FAILED /\ retry_task(t))
         => /\ ret' = Returned("retry_task", FALSE)
            /\ tasks' = tasks
            /\ queue' = queue]_vars

\* C12: a retry_task on a failed task with retry_count < max_retries succeeds,
\* increments retry_count by exactly one, sets the status to pending, clears
\* started_at, completed_at, error and progress, and puts the ID at the enqueue
\* end of the queue of the task's own tier and of no other; on a failed task
\* that used its retries up (fail, retry, fail, retry with max_retries = 1) it
\* returns False and changes nothing.
C12_RetryEffects ==
    [][\A t \in TaskIds :
         (Exists(t) /\ tasks[t].status = FAILED /\ retry_task(t))
         => IF tasks[t].retry_count < tasks[t].max_retries
            THEN /\ ret' = Returned("retry_task", TRUE)
                 /\ tasks'[t].retry_count = tasks[t].retry_count + 1
                 /\ tasks'[t].status = PENDING
                 /\ tasks'[t].started_at = None
                 /\ tasks'[t].completed_at = None
                 /\ tasks'[t].error = None
                 /\ tasks'[t].progress = 0
                 /\ tasks'[t].priority = tasks[t].priority
                 /\ \A q \in TaskPriority :
                      PopOrder(queue'[q]) = IF q = tasks[t].priority
                                            THEN Append(PopOrder(queue[q]), t)
                                            ELSE PopOrder(queue[q])
            ELSE /\ ret' = Returned("retry_task", FALSE)
                 /\ tasks' = tasks
                 /\ queue' = queue]_vars

\* the second retry of a task with max_retries = 1 was refused: the task was
\* created and retried once, failed again, and is still failed
C12_Witness ==
    \E t \in TaskIds :
        /\ Exists(t)
        /\ tasks[t].max_retries = 1
        /\ tasks[t].retry_count = 1
        /\ tasks[t].status = FAILED
        /\ ret = Returned("retry_task", FALSE)
        /\ enq[tasks[t].priority] = <<t, t>>

\* C13: cleanup_inactive_connections with threshold T collects every connection
\* whose last activity is T + 1 minutes old and none whose last activity is
\* T - 1 minutes old; it removes the connection, subscriptions and metadata of
\* each collected user before it returns, and touches no other user's entries.
C13_SweepByAge ==
    [][/\ \A T \in Thresholds :
            cleanup_inactive_connections(T) =>
               \A u \in Users :
                  connection_metadata[u] # None =>
                     /\ InactiveDuration(u) = T + 1 => (bg' # Idle /\ u \in bg'.todo)
                     /\ InactiveDuration(u) = T - 1 => (bg' = Idle \/ u \notin bg'.todo)
       /\ (bg.op = "cleanup_inactive_connections" /\ bg' # bg) =>
            /\ bg' = Idle => Cardinality(bg.todo) = 1
            /\ \A u \in Users :
                 IF u \in bg.todo /\ (bg' = Idle \/ u \notin bg'.todo)
                 THEN /\ active_connections'[u] = None
                      /\ subscriptions'[u] = None
                      /\ connection_metadata'[u] = None
                 ELSE /\ active_connections'[u] = active_connections[u]
                      /\ subscriptions'[u] = subscriptions[u]
                      /\ connection_metadata'[u] = connection_metadata[u]]_vars

\* a sweep with threshold 1 returned having disconnected one user, whose
\* endpoint finds its channel closed, and a connection that is 0 minutes old is
\* still registered
C13_Witness ==
    /\ bg = Idle
    /\ ret = Returned("cleanup_inactive_connections", 1)
    /\ \E c, d \in Channels :
         /\ endpoint[c].pc = "listen"
         /\ channel[c] = "closed"
         /\ active_connections[endpoint[c].user_id] = None
         /\ endpoint[d].pc = "listen"
         /\ active_connections[endpoint[d].user_id] = Some(d)
         /\ InactiveDuration(endpoint[d].user_id) = 0

\* C14: send_personal_message returns True exactly when the message was
\* delivered to the user's registered channel; for a user that is not connected
\* it returns False and changes no registry state; when the send fails it
\* returns False with the user's connection, subscriptions and metadata removed.
C14_SendResult ==
    [][\A u \in Users, m \in UpdateInputs :
         /\ send_task_update(u, m[1], m[2]) =>
              IF active_connections[u] = None
              THEN /\ ret' = Returned("send_personal_message", FALSE)
                   /\ UNCHANGED <<registryVars, delivered, channel>>
              ELSE /\ bg'.result = (channel[active_connections[u][1]] = "open")
                   /\ delivered' =
                        IF bg'.result
                        THEN [delivered EXCEPT ![active_connections[u][1]] =
                                 Append(@, TaskUpdateMessage(m[1], m[2]))]
                        ELSE delivered
         /\ (bg.op = "send_personal_message" /\ bg.user_id = u /\ bg' = Idle) =>
              /\ ret' = Returned("send_personal_message", bg.result)
              /\ ~bg.result => /\ active_connections'[u] = None
                               /\ subscriptions'[u] = None
                               /\ connection_metadata'[u] = None]_vars

\* a send on a channel whose client went away returned False, and the
\* connection it had found registered is gone
C14_Witness ==
    /\ bg = Idle
    /\ ret = Returned("send_personal_message", FALSE)
    /\ \E c \in Channels :
         /\ channel[c] = "gone"
         /\ endpoint[c].pc = "listen"
         /\ active_connections[endpoint[c].user_id] = None

\* C15: a send that fails does not end broadcast_message; when the call ends,
\* no channel on which its send failed is still registered, and the call
\* disconnects no user whose send succeeded.
C15_BroadcastFailures ==
    [][bg.op = "broadcast_message" =>
         /\ bg' = Idle =>
              \A w \in bg.broken, u \in Users : active_connections'[u] # Some(w)
         /\ \A u \in Users :
              (active_connections[u] # None /\ active_connections'[u] = None /\ bg' # bg)
              => u \in bg.failed]_vars

\* C16: a user has a subscription set only while it has a registered
\* connection.
C16_SubscriptionsNeedConnection ==
    \A u \in Users : subscriptions[u] # None => active_connections[u] # None

\* C17: when a worker has recorded that a task completed or failed and the
\* task's owner has a live connection registered through the endpoint, the
\* worker's notification puts a task_update message for the task on the owner's
\* channel.
C17_TerminalNotified ==
    [][\A t \in TaskIds, c \in Channels :
         ( /\ exec_notify(t)
           /\ active_connections[exec[t].user_id] = Some(c)
           /\ channel[c] = "open" )
         => \E i \in 1..Len(delivered'[c]) :
               /\ delivered'[c][i][1] = TaskUpdateType
               /\ delivered'[c][i][2] = t]_vars

C19_OnlyOwnersChannel ==
    [][/\ \A u \in Users, m \in UpdateInputs :
            send_task_update(u, m[1], m[2])
            => /\ \A c \in Channels :
                     delivered'[c] # delivered[c]
                     => /\ active_connections[u] = Some(c)
                        /\ delivered'[c] = Append(delivered[c], TaskUpdateMessage(m[1], m[2]))
               /\ \A c \in Channels :
                     (active_connections[u] = Some(c) /\ channel[c] = "open")
                     => delivered'[c] # delivered[c]
       /\ (bg.op = "send_personal_message" /\ bg' # bg) => delivered' = delivered]_vars

\* the update reached u1's channel while u2, connected on another open channel
\* and holding a subscription, received no task_update
C19_Witness ==
    \E c, d \in Channels :
        /\ c # d
        /\ active_connections["u1"] = Some(c)
        /\ active_connections["u2"] = Some(d)
        /\ channel[d] = "open"
        /\ subscriptions["u2"] # None
        /\ subscriptions["u2"][1] # {}
        /\ bg.op = "send_personal_message"
        /\ bg.user_id = "u1"
        /\ \E i \in 1..Len(delivered[c]) : delivered[c][i][1] = TaskUpdateType
        /\ \A i \in 1..Len(delivered[d]) : delivered[d][i][1] # TaskUpdateType

\* C20: complete_task called again, with the result already stored, on a task
\* that is already completed returns normally and leaves the stored record
\* (status, result, progress, completed_at, updated_at) as the first call left it.
C20_CompleteIdempotent ==
    [][\A t \in TaskIds, r \in Results :
         ( /\ Exists(t)
           /\ tasks[t].status = COMPLETED
           /\ tasks[t].result = Some(r)
           /\ complete_task(t, r) )
         => /\ ret' = Void
            /\ tasks'[t] = tasks[t]]_vars

\* C21: update_task_status(task_id, 'running') on an ID that has no record, or
\* on a task that is already completed, failed or cancelled, does not return
\* normally: an error is handed to the caller, and the store is left unchanged.
C21_MarkRunningGuarded ==
    [][\A t \in TaskIds :
         ( /\ update_task_status(t, None)
           /\ ~Exists(t) \/ IsTerminal(tasks[t].status) )
         => /\ ret' # Void
            /\ UNCHANGED storeVars]_vars

\* C22: the stored progress of every task is an integer in [0, 100], a progress
\* report never raises, and while a task stays running its stored progress
\* never decreases: a report outside [0, 100] or below the stored progress is
\* not stored.
C22_ProgressBoundedMonotone ==
    [][\A t \in TaskIds :
         /\ tasks'[t] # NoTask => tasks'[t].progress \in 0..100
         /\ (\E p \in ProgressReports : update_task_status(t, p)) => ret' = Void
         /\ ( /\ Exists(t)
              /\ tasks[t].status = RUNNING
              /\ tasks'[t] # NoTask
              /\ tasks'[t].status = RUNNING )
            => tasks'[t].progress >= tasks[t].progress]_vars

\* the IDs in the priority-tier queues
Queued == UNION {{queue[p][i] : i \in 1..Len(queue[p])} : p \in TaskPriority}

\* C23: cleanup_expired_tasks(age) deletes every task record created more than
\* age ago, whatever its status, leaves every younger record as it is, and when
\* it has returned no deleted ID is left in its owner's task set, in the
\* active-task set or in a priority-tier queue.
C23_ExpiredSwept ==
    [][\A a \in MaxAges :
         cleanup_expired_tasks(a) =>
            \A t \in TaskIds :
               /\ t \in Expired(a)
                  => /\ tasks'[t] = NoTask
                     /\ t \notin user_tasks'[tasks[t].user_id]
                     /\ t \notin active_tasks'
                     /\ t \notin Queued'
               /\ (Exists(t) /\ t \notin Expired(a)) => tasks'[t] = tasks[t]]_vars

\* C24: a task record exists only until the retention window has elapsed since
\* its creation, whatever its status and whatever updates were applied to it.
C24_RetentionFromCreation ==
    \A t \in TaskIds : Exists(t) => now < tasks[t].created_at + Retention

\* the sender on channel c is registered on that channel, the channel is open
\* and its endpoint is in the receive loop
Listening(c) ==
    /\ endpoint[c].pc = "listen"
    /\ channel[c] = "open"
    /\ active_connections[endpoint[c].user_id] = Some(c)

\* C25: a ping carrying a client timestamp ts is answered on the sender's
\* channel with a pong message whose timestamp is ts.
C25_PongEchoesTimestamp ==
    [][\A c \in Channels, m \in InboundMessages :
         ( /\ Listening(c)
           /\ m.type = "ping"
           /\ m.timestamp # None
           /\ handle_websocket_message(c, m) )
         => delivered'[c] = Append(delivered[c], <<"pong", m.timestamp[1]>>)]_vars

\* C26: after a client has connected and sent one ping, the first message it
\* receives on that connection is of type pong.
C26_FirstMessageIsPong ==
    [][\A c \in Channels, m \in InboundMessages :
         ( /\ Listening(c)
           /\ m.type = "ping"
           /\ handle_websocket_message(c, m) )
         => delivered'[c][1][1] = "pong"]_vars

\* C27: an inbound message of type subscribe naming a topic adds the topic to
\* the sender's subscription set and is answered with a subscription_confirmed
\* message; an inbound message of type unsubscribe removes the topic.
C27_SubscribeUnsubscribe ==
    [][\A c \in Channels, m \in InboundMessages :
         (Listening(c) /\ handle_websocket_message(c, m)) =>
            /\ m.type = "subscribe" =>
                 /\ subscriptions'[endpoint[c].user_id] # None
                 /\ m.subscription_type[1] \in subscriptions'[endpoint[c].user_id][1]
                 /\ delivered'[c] # delivered[c]
                 /\ delivered'[c][Len(delivered'[c])][1] = "subscription_confirmed"
            /\ m.type = "unsubscribe" =>
                 \/ subscriptions'[endpoint[c].user_id] = None
                 \/ m.subscription_type[1] \notin subscriptions'[endpoint[c].user_id][1]]_vars

\* C28: an inbound message whose type is not recognized is answered with an
\* error message on the sender's channel, and the sender's connection, its
\* subscriptions and its receive loop stay in place: the registry is as it was
\* and the endpoint goes back to receiving.
C28_UnknownTypeAnswered ==
    [][\A c \in Channels :
         /\ \A m \in InboundMessages :
              ( /\ Listening(c)
                /\ m.type \notin RecognizedTypes
                /\ handle_websocket_message(c, m) )
              => /\ delivered'[c] = Append(delivered[c], <<"error", now>>)
                 /\ active_connections' = active_connections
                 /\ subscriptions' = subscriptions
                 /\ channel'[c] = "open"
                 /\ endpoint'[c].pc = "sent"
         /\ send_personal_message_sent(c)
              => /\ endpoint'[c].pc = "listen"
                 /\ active_connections' = active_connections
                 /\ subscriptions' = subscriptions]_vars

\* a client that is still connected and in the receive loop has received an
\* error message and holds a subscription
C28_Witness ==
    \E c \in Channels :
        /\ Listening(c)
        /\ \E i \in 1..Len(delivered[c]) : delivered[c][i][1] = "error"
        /\ subscriptions[endpoint[c].user_id] # None
        /\ subscriptions[endpoint[c].user_id][1] # {}

\* C29: send_to_subscribers(topic, message) writes the message only to the
\* channel of an identity that is subscribed to topic and connected, and when
\* the call ends every identity that was a connected subscriber with a working
\* channel when the call began, and still is, has received the message once.
C29_ExactlySubscribers ==
    [][/\ (bg' # bg /\ (bg.op = "send_to_subscribers" \/ bg'.op = "send_to_subscribers"))
          => \A c \in Channels :
                delivered'[c] # delivered[c]
                => /\ \E u \in Users, s \in Topics :
                         /\ active_connections[u] = Some(c)
                         /\ subscriptions[u] # None
                         /\ s \in subscriptions[u][1]
                         /\ delivered'[c] = Append(delivered[c], TopicMessage(s))
       /\ (bg.op = "send_to_subscribers" /\ bg' = Idle)
          => \A u \in Users :
                ( /\ bg.eligible[u] # 0
                  /\ active_connections'[u] = Some(bg.eligible[u])
                  /\ channel'[bg.eligible[u]] = "open"
                  /\ subscriptions'[u] # None
                  /\ bg.subscription_type \in subscriptions'[u][1] )
                => Cardinality({i \in 1..Len(delivered'[bg.eligible[u]]) :
                        delivered'[bg.eligible[u]][i][1] = TopicMessage(bg.subscription_type)[1]})
                   = bg.had[bg.eligible[u]] + 1]_vars

\* the tasks owned by owner that exist and have the status asked for
Matching(owner, status_filter) ==
    {t \in TaskIds :
        /\ Exists(t)
        /\ tasks[t].user_id = owner
        /\ status_filter # None => tasks[t].status = status_filter[1]}

\* C30: get_user_tasks(owner, limit, status_filter, offset) returns only tasks
\* owned by owner that match status_filter when one is given, ordered by
\* created time descending, and the list returned is exactly the elements at
\* positions offset .. offset+limit-1 of the owner's matching tasks in that order.
C30_UserTasksPage ==
    [][\A u \in Users, x \in ListingInputs :
         get_user_tasks(u, x[1], x[2], x[3]) =>
            /\ ret'.op = "get_user_tasks"
            /\ \A i \in 1..Len(ret'.value) : ret'.value[i] \in Matching(u, x[2])
            /\ \E all \in SortedByCreated(Matching(u, x[2])) :
                  ret'.value = [i \in 1..(IF Len(all) - x[3] < 0 THEN 0
                                          ELSE IF Len(all) - x[3] < x[1] THEN Len(all) - x[3]
                                          ELSE x[1]) |-> all[x[3] + i]]]_vars

\* C31: a task_status_request naming the ID of an existing task is answered on
\* the sender's channel with a task_status_response carrying the task's stored
\* record, and one naming an unknown ID with a task_status_response saying
\* 'Task not found', not with an error message.
C31_StatusRequestAnswered ==
    [][\A c \in Channels, t \in TaskIds :
         (Listening(c) /\ handle_task_status_request(c, t))
         => delivered'[c] = Append(delivered[c],
               <<"task_status_response", now,
                 IF Exists(t) THEN tasks[t].status ELSE "Task not found", t>>)]_vars

\* the slots of the four tier queues that hold task t
Slots(t) == {<<p, i>> \in TaskPriority \X (1..(2 * MaxQueueTasks + 2)) :
                i <= Len(queue[p]) /\ queue[p][i] = t}

\* C32: a task ID occupies at most one slot across the four tier queues,
\* whatever create_task, retry_task and get_next_task calls were made.
C32_QueuedOnce ==
    \A t \in TaskIds : Cardinality(Slots(t)) <= 1

Occurrences(seq, t) == Cardinality({i \in 1..Len(seq) : seq[i] = t})

\* C39: an ID is handed out by get_next_task at most as many times as it was
\* pushed on the tier, so an ID enqueued once goes to at most one of the
\* consumers calling get_next_task; and get_next_task on an empty tier returns
\* None and changes no queue.
C39_HandedOutOnce ==
    [][\A p \in TaskPriority :
         get_next_task(p) =>
            /\ queue[p] = <<>> => (ret' = Returned("get_next_task", None) /\ queue' = queue)
            /\ \A t \in TaskIds : Occurrences(deq'[p], t) <= Occurrences(enq[p], t)]_vars

\* an ID has been handed out, its tier is empty and the call that followed
\* returned None
C39_Witness ==
    \E p \in TaskPriority :
        /\ deq[p] # <<>>
        /\ queue[p] = <<>>
        /\ ret = Returned("get_next_task", None)

\* C38: whenever no operation is in progress, the active-task set holds exactly
\* the IDs of the existing task records whose status is pending or running.
C38_ActiveSetExact ==
    active_tasks = {t \in TaskIds : Exists(t) /\ tasks[t].status \in {PENDING, RUNNING}}

\* C40: when one of the four store steps of create_task fails and the call
\* raises, no record, owner-index entry, active-set entry or queue entry of the
\* new ID is left behind.
C40_CreateAllOrNothing ==
    [][\A c \in CreateInputs : \A failing \in 1..4 :
         create_task_failing(c[1], c[2], c[3], failing) =>
            /\ tasks'[nextId] = NoTask
            /\ \A u \in Users : nextId \notin user_tasks'[u]
            /\ nextId \notin active_tasks'
            /\ \A p \in TaskPriority : Occurrences(queue'[p], nextId) = 0]_vars

\* C37: a broadcast_message that is suspended in a send while other users
\* connect or disconnect does not abort with an error: when the user it was
\* sending to is still registered, the call goes on or returns normally.
C37_NoAbortUnderChurn ==
    [][(broadcast_sent /\ active_connections[bg.user_id] # None /\ bg' = Idle)
          => ret'.value = None]_vars

\* C35: the registry lock is released after every acquisition, and every call
\* of connect or disconnect (the one in the finally clause and the one after a
\* failed send included) made by an endpoint eventually returns.
C35_LockReleasedCallsReturn ==
    \A c \in Channels :
        /\ (lock = Some(c)) ~> (lock = None)
        /\ (endpoint[c].pc \in {"connect", "disconnect", "cleanup"})
              ~> (endpoint[c].pc \in {"welcome", "listen", "done"})

\* C36: a disconnect that the endpoint of an older channel issues (in its
\* finally clause or after a failed send) neither closes nor unregisters a
\* channel that was accepted later for the same user.
C36_OldDisconnectSparesNewChannel ==
    [][\A c, d \in Channels :
         ( /\ c < d
           /\ disconnect(c) \/ disconnect_cleanup(c)
           /\ endpoint[c].ctx \in {"finally", "send"}
           /\ active_connections[endpoint[c].user_id] = Some(d) )
         => /\ channel'[d] = channel[d]
            /\ active_connections'[endpoint[c].user_id] = Some(d)]_vars

\* C34: when broadcast_message's send to one user never completes, every other
\* user that has been connected on an open channel since the call began, is not
\* excluded and comes later in the iteration still gets the message eventually
\* (or stops being connected).
C34_StalledSendDoesNotBlockOthers ==
    \A u \in Users :
        ( /\ Stalled
          /\ Cardinality(Connected) = bg.size
          /\ \E i \in DOMAIN bg.order : i > bg.i /\ bg.order[i] = u
          /\ u \notin bg.exclude_users
          /\ active_connections[u] # None
          /\ channel[Addressee(u)] = "open"
          /\ SystemAlert \notin Messages(Addressee(u)) )
        ~> ( \/ active_connections[u] = None
             \/ channel[Addressee(u)] # "open"
             \/ SystemAlert \in Messages(Addressee(u)) )
====
